---- MODULE Spec2Model ----
(***************************************************************************)
(* Model of qis/plots/scatter.py: plot_scatter, its wrapper                *)
(* plot_classification_scatter and the confidence half-width calc_ci; and  *)
(* of the page list of generate_strategy_factsheet.                        *)
(* A call is a run of the state machine: Init is the call with its         *)
(* arguments bound, every action is one block of the function body, and    *)
(* the drawing surface is the log of the calls made on it.                 *)
(***************************************************************************)
EXTENDS Integers, Sequences, FiniteSets, TLC

(* ---------------------------------------------------------------- bounds *)
MaxRows == 2
MaxCols == 5
MaxVal == 2
MaxOrder == 2
MaxCiRows == 3
MaxCiVal == 2

(* ------------------------------------------------------------- constants *)
None == "None"
NA == "NaN"
color0 == "darkblue"
value_name == "value_name"
hue_name == "hue"
MeltHue == "hue"
HueRecolor == "red"
ColorColumn == "color"
BandColor == "0.5"
Line45Color == "black"
CiDofParams == 2

(* ------------------------------------------------------ sequence helpers *)
Range(s) == {s[i] : i \in 1..Len(s)}

RECURSIVE Concat(_)
Concat(ss) == IF ss = <<>> THEN <<>> ELSE Head(ss) \o Concat(Tail(ss))

Min2(a, b) == IF a < b THEN a ELSE b

RECURSIVE SumSeq(_)
SumSeq(s) == IF s = <<>> THEN 0 ELSE Head(s) + SumSeq(Tail(s))

IndexOf(s, e) == CHOOSE i \in 1..Len(s) : s[i] = e

(* ------------------------------------------------------------ data frame *)
(* A frame is its column names and its rows; a row is one cell per column. *)
(* Cells are text ("1", "2", ...) so that values, column names and colour  *)
(* names can share a column, as they do after melt and after line 155.     *)
Cell(v) == ToString(v)
Num(c) == CHOOSE v \in 0..(MaxVal + MaxCiVal + 8) : Cell(v) = c

NamesPlain == <<"a", "b", "g", "d", "e", "f", "h">>
NamesColor == <<"a", "b", "color", "d", "e", "f", "h">>

Frame(cols, rows) == [cols |-> cols, rows |-> rows]
ColIdx(df, name) == IndexOf(df.cols, name)
HasCol(df, name) == name \in Range(df.cols)
Column(df, name) == [i \in 1..Len(df.rows) |-> df.rows[i][ColIdx(df, name)]]

\* pandas unique(): the distinct values in order of first occurrence
RECURSIVE Unique(_)
Unique(s) ==
    IF s = <<>> THEN <<>>
    ELSE LET u == Unique(SubSeq(s, 1, Len(s) - 1))
             e == s[Len(s)]
         IN IF e \in Range(u) THEN u ELSE Append(u, e)

\* df.dropna(): a row with a missing value in any column is removed
RowHasNa(r) == \E c \in 1..Len(r) : r[c] = NA
DropNa(df) == Frame(df.cols, SelectSeq(df.rows, LAMBDA r : ~RowHasNa(r)))

\* pd.melt(df, id_vars=[x], value_vars=df.columns.drop(x), var_name, value_name)
MeltOne(df, x, c) ==
    [i \in 1..Len(df.rows) |-> <<df.rows[i][ColIdx(df, x)], c, df.rows[i][ColIdx(df, c)]>>]
Melt(df, x, var_name, val_name) ==
    LET value_vars == SelectSeq(df.cols, LAMBDA c : c # x)
    IN Frame(<<x, var_name, val_name>>,
             Concat([k \in 1..Len(value_vars) |-> MeltOne(df, x, value_vars[k])]))

\* df[name] = value: overwrite the column when it exists, append it otherwise
SetColumn(df, name, value) ==
    IF HasCol(df, name)
    THEN Frame(df.cols, [i \in 1..Len(df.rows) |->
                          [df.rows[i] EXCEPT ![ColIdx(df, name)] = value]])
    ELSE Frame(Append(df.cols, name),
               [i \in 1..Len(df.rows) |-> Append(df.rows[i], value)])

\* df.loc[df[hue] == hue_id, name] = value
SetColumnWhere(df, hue, hue_id, name, value) ==
    Frame(df.cols, [i \in 1..Len(df.rows) |->
                     IF df.rows[i][ColIdx(df, hue)] = hue_id
                     THEN [df.rows[i] EXCEPT ![ColIdx(df, name)] = value]
                     ELSE df.rows[i]])

(* ------------------------------------------------- repository helpers *)
\* qp.get_n_colors(n): n distinct colours
PaletteColors == <<"c1", "c2", "c3", "c4", "c5", "c6", "c7", "c8">>
get_n_colors(n) == SubSeq(PaletteColors, 1, n)

\* qu.add_quantile_classification with explicit bin edges: a row's class is
\* the bin of its x value; edges are -3.0, -1.5, 0.0, 1.5, 3.0 (times ten)
bins == <<-30, -15, 0, 15, 30>>
BinOf(c) ==
    IF c = NA THEN NA
    ELSE LET below == Cardinality({k \in 1..Len(bins) : bins[k] < 10 * Num(c)})
         IN IF below = 0 \/ below = Len(bins)
            THEN NA
            ELSE <<"bin1", "bin2", "bin3", "bin4">>[below]
add_quantile_classification(df, x) ==
    LET xi == ColIdx(df, x)
    IN IF HasCol(df, hue_name)
       THEN Frame(df.cols, [i \in 1..Len(df.rows) |->
                   [df.rows[i] EXCEPT ![ColIdx(df, hue_name)] = BinOf(df.rows[i][xi])]])
       ELSE Frame(Append(df.cols, hue_name),
                  [i \in 1..Len(df.rows) |-> Append(df.rows[i], BinOf(df.rows[i][xi]))])

(* ------------------------------------------------- calc_ci, 293-307 *)
\* numpy floats: a NaN or a number, held in hundredths
Hundred == 10 * 10
NaNf == [nan |-> TRUE, v |-> 0]
F(v) == [nan |-> FALSE, v |-> v]
FAdd(a, b) == IF a.nan \/ b.nan THEN NaNf ELSE F(a.v + b.v)
FSub(a, b) == IF a.nan \/ b.nan THEN NaNf ELSE F(a.v - b.v)
\* IEEE comparisons: false as soon as one side is NaN
FEq(a, b) == ~a.nan /\ ~b.nan /\ a.v = b.v
FGe0(a) == ~a.nan /\ a.v >= 0

RECURSIVE ISqrtBetween(_, _, _)
ISqrtBetween(n, lo, hi) ==
    IF lo >= hi THEN lo
    ELSE LET mid == (lo + hi + 1) \div 2
         IN IF mid * mid <= n THEN ISqrtBetween(n, mid, hi)
            ELSE ISqrtBetween(n, lo, mid - 1)
ISqrt(n) == ISqrtBetween(n, 0, Min2(n, 40000))

\* stats.t.ppf(0.95, dof) in hundredths; NaN when dof <= 0
TQuantiles == <<631, 292, 235, 213, 202, 194, 189, 186, 183, 181,
                180, 178, 177, 176, 175, 175, 174, 173, 173, 172>>
TPpf95(dof) ==
    IF dof <= 0 THEN NaNf
    ELSE IF dof <= Len(TQuantiles) THEN F(TQuantiles[dof])
    ELSE F(165 + 160 \div dof)

\* line 304's np.sum(resid ** 2)
SumSqResid(y, y_model) ==
    SumSeq([i \in 1..Len(y) |-> (y[i] - y_model[i]) * (y[i] - y_model[i])])

\* n * (x_i - mean(x)), and n^2 * sum((x - mean(x)) ** 2): line 306 over n
Dev(x, i) == Len(x) * x[i] - SumSeq(x)
SumSqDev(x) == SumSeq([i \in 1..Len(x) |-> Dev(x, i) * Dev(x, i)])

\* line 306 at point i, for dof > 0:
\* t * sqrt(ss / dof) * sqrt(1/n + dev_i^2 / sum(dev^2)); 0/0 is NaN
HalfWidthAt(x, y, y_model, i) ==
    LET n == Len(x)
        dof == n - CiDofParams
        t == TPpf95(dof)
        ss == SumSqResid(y, y_model)
        D == SumSqDev(x)
        d2 == Dev(x, i) * Dev(x, i)
    IN IF t.nan \/ D = 0 THEN NaNf
       ELSE F((t.v * ISqrt((ss * (D + n * d2) * Hundred * Hundred) \div (dof * n * D))) \div Hundred)

\* calc_ci: the half-widths, the divisor of line 304, and whether line 306's
\* 1 / n raised ZeroDivisionError
calc_ci(x, y, y_model) ==
    [dof |-> Len(x) - CiDofParams,
     raised |-> Len(x) = 0,
     ci |-> [i \in 1..Len(x) |-> HalfWidthAt(x, y, y_model, i)]]

\* lines 145-146: the two dashed lines, y_model - ci and y_model + ci
BandLower(y_model, ci) == [i \in 1..Len(ci) |-> FSub(F(y_model[i] * Hundred), ci[i])]
BandUpper(y_model, ci) == [i \in 1..Len(ci) |-> FAdd(F(y_model[i] * Hundred), ci[i])]
Band(x, y_model, ci) ==
    [x |-> x, prediction |-> [i \in 1..Len(y_model) |-> F(y_model[i] * Hundred)],
     half_width |-> ci,
     lower |-> BandLower(y_model, ci), upper |-> BandUpper(y_model, ci)]

(* ------------------------------------------------------------- the call *)
VARIABLES
    entry,                  \* the function the caller invoked
    df_in,                  \* the caller's table
    args,                   \* the keyword arguments of the call
    pc,                     \* position in the function body
    df,                     \* the frame plot_scatter works on
    x_column, y_column, hue,
    add_hue_model_label,
    colors,
    surface,                \* None, "new" (plt.subplots) or "caller" (ax given)
    fig,                    \* plot_scatter's fig: "Figure" or None
    draws,                  \* the draw calls issued on the surface, in order
    idx,                    \* loop counter of the per-group loop
    estimated_reg_models,   \* hue ids with a fitted model
    legend_labels, legend_colors,
    legend_calls,           \* the calls of qp.set_legend
    band,                   \* the confidence bands drawn by lines 141-146
    dof_div,                \* the divisors line 304 divided by
    xlim, ylim,             \* the axis limits of the surface
    scatter_calls,          \* the calls of plot_scatter made by the wrapper
    ci_in,                  \* the arguments of a direct call of calc_ci
    err,                    \* the exception that ended the call
    ret,                    \* what the call returned to the caller
    ols_calls,              \* the samples handed to sm.OLS(...).fit(), in order
    lim_read,               \* the limits read by lines 194-195
    df_owner,               \* the object the name df is bound to
    caller_table,           \* the contents of the table object of the caller
    args_in,                \* the keyword arguments as the caller gave them
    fs,                     \* the switches of generate_strategy_factsheet
    figs,                   \* its list of figures
    created                 \* the figures made by plt.figure, in order

vars == <<entry, df_in, args, pc, df,
          x_column, y_column, hue, add_hue_model_label, colors,
          surface, fig, draws, idx, estimated_reg_models,
          legend_labels, legend_colors, legend_calls, band, dof_div,
          xlim, ylim, scatter_calls, ci_in, err,
          ret, ols_calls, lim_read, df_owner, caller_table,
          args_in, fs, figs, created>>

\* None where the argument is a list, a pair of limits, or an order
NoneSeq == <<None>>
NoLimits == <<>>
NoOrder == 0 - 1
\* add_hue_model_label is None, True or False
Yes == "True"
No == "False"

\* the defaults of plot_scatter's signature, lines 20-52
Defaults ==
    [x_column |-> None, y_column |-> None, hue |-> None,
     annotation_labels |-> NoneSeq, annotation_colors |-> NoneSeq,
     annotation_color |-> "red",
     add_universe_model_label |-> TRUE,
     add_universe_model_prediction |-> FALSE,
     add_universe_model_ci |-> FALSE,
     add_hue_model_label |-> None,
     ci |-> None, order |-> 2, full_sample_order |-> 2,
     fit_intercept |-> TRUE, colors |-> NoneSeq,
     x_limits |-> NoLimits, y_limits |-> NoLimits,
     add_45line |-> FALSE, ax |-> None]

(* -------------------------------------------------------- surface log *)
Pooled == "full sample"
\* every draw call of plot_scatter is made on ax (ax=ax, or a method of ax)
DrawAt(call, what, owner, color, at) ==
    [call |-> call, what |-> what, owner |-> owner, color |-> color, at |-> at,
     on |-> surface]
Draw(call, what, owner, color) == DrawAt(call, what, owner, color, <<>>)
DrawsCurve(d) == d.what \in {"curve", "points+curve"}
DrawsPoints(d) == d.what \in {"points", "points+curve"}

\* a legend label: the hue id (or the pooled model) it names, and whether it
\* carries the text of qu.reg_model_params_to_str
Label(owner, params) == [owner |-> owner, params |-> params]

(* ------------------------------------------------ plot_scatter, 58-80 *)
TwoDataColumnsAtLeast(d, h) == Len(d.cols) >= 2

\* line 61 and line 66: the table has an x and a y column and nothing else
TwoDataColumns(d, h) == Len(d.cols) = 2 \/ (Len(d.cols) = 3 /\ h # None)

Raise(e) ==
    /\ err' = e
    /\ pc' = "raised"

\* the exceptions of lines 64, 266 and 271, and those of the delegates
XUndefined == "ValueError: x_column is not defined"
YUndefined == "ValueError: y_column is not defined"
DelegateError == "ValueError: empty sample"
InferenceErrors == {XUndefined, YUndefined}

CopyDropNaThenSubplots ==
    /\ pc = "dropna"
    /\ df' = DropNa(df)
    /\ df_owner' = "local"
    /\ surface' = IF args.ax = None THEN "new" ELSE "caller"
    /\ pc' = "resolve_x"
    /\ UNCHANGED <<entry, df_in, args, x_column, y_column, hue,
                   add_hue_model_label, colors, fig, draws, idx,
                   estimated_reg_models, legend_labels,
                   legend_colors, legend_calls, band, dof_div, xlim,
                   ylim, scatter_calls, ci_in, err, ret, ols_calls,
                   lim_read, caller_table, args_in, fs, figs,
                   created>>

SameObject(owner) == owner

\* df.copy() at line 58 and pd.melt at line 71 return a new frame: the name
\* df is bound to an object of the call, whatever it was bound to before
NewObject(owner) == "local"

\* line 58
CopyDropNa ==
    /\ pc = "dropna"
    /\ df' = DropNa(df)
    /\ df_owner' = NewObject(df_owner)
    /\ pc' = "resolve_x"
    /\ UNCHANGED <<entry, df_in, args, x_column, y_column, hue,
                   add_hue_model_label, colors, surface, fig, draws,
                   idx, estimated_reg_models, legend_labels,
                   legend_colors, legend_calls, band, dof_div, xlim,
                   ylim, scatter_calls, ci_in, err, ret, ols_calls,
                   lim_read, caller_table, args_in, fs, figs,
                   created>>

\* the x column inferred by lines 60-62
InferX(d) == d.cols[1]
\* lines 60-64
ResolveX ==
    /\ pc = "resolve_x"
    /\ IF x_column = None
       THEN IF TwoDataColumns(df, hue)
            THEN x_column' = InferX(df) /\ pc' = "resolve_y" /\ err' = err
            ELSE Raise(XUndefined) /\ x_column' = x_column
       ELSE x_column' = x_column /\ pc' = "resolve_y" /\ err' = err
    /\ UNCHANGED <<entry, df_in, args, df, y_column, hue,
                   add_hue_model_label, colors, surface, fig, draws,
                   idx, estimated_reg_models, legend_labels,
                   legend_colors, legend_calls, band, dof_div, xlim,
                   ylim, scatter_calls, ci_in, ret, ols_calls,
                   lim_read, df_owner, caller_table, args_in, fs,
                   figs, created>>

InferYFirstColumn(d) == d.cols[1]

\* the y column inferred by lines 66-67
InferY(d) == d.cols[2]
MeltNever(d, h) == FALSE

\* lines 65-72: a missing y is the second column, or the table is melted
\* into (x, hue, value_name) with one group per remaining column
MeltWhenNoY(d, h) == ~TwoDataColumns(d, h)
ResolveY ==
    /\ pc = "resolve_y"
    /\ IF y_column = None
       THEN IF ~MeltWhenNoY(df, hue)
            THEN /\ y_column' = InferY(df)
                 /\ UNCHANGED <<hue, df, df_owner>>
            ELSE /\ hue' = MeltHue
                 /\ y_column' = value_name
                 /\ df' = Melt(df, x_column, MeltHue, value_name)
                 /\ df_owner' = NewObject(df_owner)
       ELSE UNCHANGED <<y_column, hue, df, df_owner>>
    /\ pc' = "surface"
    /\ UNCHANGED <<entry, df_in, args, x_column, add_hue_model_label,
                   colors, surface, fig, draws, idx,
                   estimated_reg_models, legend_labels,
                   legend_colors, legend_calls, band, dof_div, xlim,
                   ylim, scatter_calls, ci_in, err, ret, ols_calls,
                   lim_read, caller_table, args_in, fs, figs,
                   created>>

\* lines 74-80
SurfaceAlwaysNew(ax) == "new"

SurfaceFor(ax) == IF ax = None THEN "new" ELSE "caller"
FigFor(ax) == IF ax = None THEN "Figure" ELSE None
AllocSurface ==
    /\ pc = "surface"
    /\ add_hue_model_label' =
          IF hue # None /\ add_hue_model_label = None THEN Yes
          ELSE add_hue_model_label
    /\ surface' = SurfaceFor(args.ax)
    /\ fig' = FigFor(args.ax)
    /\ pc' = IF hue # None THEN "hue_colors" ELSE "full_sample_draw"
    /\ UNCHANGED <<entry, df_in, args, df, x_column, y_column, hue, colors,
                   draws, idx, estimated_reg_models, legend_labels,
                   legend_colors, legend_calls, band, dof_div, xlim,
                   ylim, scatter_calls, ci_in, err, ret, ols_calls,
                   lim_read, df_owner, caller_table, args_in, fs,
                   figs, created>>

(* ----------------------------------------------- plot_scatter, 82-124 *)
\* lines 84-88
HueIds(d, h) == Unique(Column(d, h))
HueColors ==
    /\ pc = "hue_colors"
    /\ colors' = IF colors = NoneSeq THEN get_n_colors(Len(HueIds(df, hue)))
                 ELSE colors
    /\ idx' = 1
    /\ pc' = "hue_loop"
    /\ UNCHANGED <<entry, df_in, args, df, x_column, y_column, hue,
                   add_hue_model_label, surface, fig, draws,
                   estimated_reg_models, legend_labels,
                   legend_colors, legend_calls, band, dof_div, xlim,
                   ylim, scatter_calls, ci_in, err, ret, ols_calls,
                   lim_read, df_owner, caller_table, args_in, fs,
                   figs, created>>

GroupCurveAnyOrder(order, ci, hue_id, color) ==
    IF ci # None
    THEN <<Draw("sns.regplot", "points+curve", hue_id, color)>>
    ELSE <<Draw("ax.plot", "curve", hue_id, color)>>

\* the curve call of lines 101-112 for one group, after its scatter layer
GroupCurve(order, ci, hue_id, color) ==
    IF order > 0
    THEN IF ci # None
         THEN <<Draw("sns.regplot", "points+curve", hue_id, color)>>
         ELSE <<Draw("ax.plot", "curve", hue_id, color)>>
    ELSE <<>>

GroupDrawsCurveFirst(order, ci, hue_id, color) ==
    GroupCurve(order, ci, hue_id, color)
    \o <<Draw("sns.scatterplot", "points", hue_id, color)>>

\* lines 99-112: the scatter layer of one group, then its curve
GroupDraws(order, ci, hue_id, color) ==
    <<Draw("sns.scatterplot", "points", hue_id, color)>>
    \o GroupCurve(order, ci, hue_id, color)

\* qu.get_ols_x: the columns of the polynomial design matrix
get_ols_x_cols(order, fit_intercept) == order + (IF fit_intercept THEN 1 ELSE 0)

\* lines 91-95: the sample of one fit as the solver receives it
OlsCall(owner, n, order, fit_intercept) ==
    [owner |-> owner, n |-> n, cols |-> get_ols_x_cols(order, fit_intercept)]
GroupSize(d, h, hue_id) ==
    Len(SelectSeq(d.rows, LAMBDA r : r[ColIdx(d, h)] = hue_id))

\* lines 89-112, one iteration: fit, scatter layer, curve
HueLoop ==
    /\ pc = "hue_loop"
    /\ LET hue_ids == HueIds(df, hue)
       IN IF idx > Len(hue_ids)
          THEN /\ pc' = "pooled"
               /\ UNCHANGED <<estimated_reg_models, ols_calls, draws, idx, err>>
          ELSE LET hue_id == hue_ids[idx]
               IN /\ ols_calls' = Append(ols_calls,
                        OlsCall(hue_id, GroupSize(df, hue, hue_id),
                                args.order, args.fit_intercept))
                  /\ estimated_reg_models' = estimated_reg_models \cup {hue_id}
                  /\ IF idx > Len(colors)
                     THEN Raise("IndexError") /\ UNCHANGED <<draws, idx>>
                     ELSE /\ draws' = draws
                               \o GroupDraws(args.order, args.ci, hue_id, colors[idx])
                          /\ idx' = idx + 1
                          /\ UNCHANGED <<pc, err>>
    /\ UNCHANGED <<entry, df_in, args, df, x_column, y_column, hue,
                   add_hue_model_label, colors, surface, fig,
                   legend_labels, legend_colors, legend_calls, band,
                   dof_div, xlim, ylim, scatter_calls, ci_in, ret,
                   lim_read, df_owner, caller_table, args_in, fs,
                   figs, created>>

\* lines 114-124: no group field
FullSampleCall(full_sample_order) ==
    IF full_sample_order = NoOrder THEN <<>>
    ELSE IF full_sample_order = 0
         THEN <<Draw("sns.scatterplot", "points", Pooled, color0)>>
         ELSE <<Draw("sns.regplot", "points+curve", Pooled, color0)>>
\* what seaborn does with an empty frame is not fixed by this code: the call
\* may raise, or return with nothing drawn
FullSampleDraw ==
    /\ pc = "full_sample_draw"
    /\ IF Len(df.rows) = 0 /\ FullSampleCall(args.full_sample_order) # <<>>
       THEN \/ Raise(DelegateError) /\ draws' = draws
            \/ pc' = "pooled" /\ err' = err /\ draws' = draws
       ELSE /\ draws' = draws \o FullSampleCall(args.full_sample_order)
            /\ pc' = "pooled"
            /\ err' = err
    /\ UNCHANGED <<entry, df_in, args, df, x_column, y_column, hue,
                   add_hue_model_label, colors, surface, fig, idx,
                   estimated_reg_models, legend_labels,
                   legend_colors, legend_calls, band, dof_div, xlim,
                   ylim, scatter_calls, ci_in, ret, ols_calls,
                   lim_read, df_owner, caller_table, args_in, fs,
                   figs, created>>

(* ---------------------------------------------- plot_scatter, 126-152 *)
\* line 129-130
FitsFullSample(a) ==
    /\ a.full_sample_order # NoOrder
    /\ \/ a.add_universe_model_prediction
       \/ a.add_universe_model_label
       \/ a.add_universe_model_ci
    /\ a.full_sample_order > 0

\* line 131: df[[x, y]].sort_values(by=x)
SortedByX(d, x) ==
    SortSeq(d.rows, LAMBDA r1, r2 : Num(r1[ColIdx(d, x)]) < Num(r2[ColIdx(d, x)]))
XOf(d, x) == LET rs == SortedByX(d, x)
             IN [i \in 1..Len(rs) |-> Num(rs[i][ColIdx(d, x)])]
YOf(d, x, y) == LET rs == SortedByX(d, x)
                IN [i \in 1..Len(rs) |-> Num(rs[i][ColIdx(d, y)])]

\* reg_model.predict(x1) of the least-squares fit of lines 134-135: every
\* row of the tables of Init has equal numeric cells, so y is a polynomial
\* of x of every order >= 1 and the fit reproduces y
Predict(x, y) == y

\* lines 127-152; the fit of an empty sample may raise inside the delegate
FullSampleModel ==
    /\ pc = "pooled"
    /\ ols_calls' = IF FitsFullSample(args)
                    THEN Append(ols_calls,
                                OlsCall(Pooled, Len(df.rows),
                                        args.full_sample_order, args.fit_intercept))
                    ELSE ols_calls
    /\ IF ~FitsFullSample(args)
       THEN /\ legend_labels' = <<>>
            /\ legend_colors' = <<>>
            /\ pc' = "legend"
            /\ UNCHANGED <<draws, band, dof_div, err>>
       ELSE \E fitted \in IF Len(df.rows) = 0 THEN BOOLEAN ELSE {TRUE} :
            LET x == XOf(df, x_column)
                y == YOf(df, x_column, y_column)
                y_model == Predict(x, y)
                r == calc_ci(x, y, y_model)
                line == IF args.add_universe_model_prediction
                        THEN <<Draw("ax.plot", "curve", Pooled, color0)>>
                        ELSE <<>>
            IN IF ~fitted
               THEN /\ Raise(DelegateError)
                    /\ legend_labels' = <<>>
                    /\ legend_colors' = <<>>
                    /\ UNCHANGED <<draws, band, dof_div>>
               ELSE IF args.add_universe_model_ci /\ r.raised
               THEN /\ Raise("ZeroDivisionError")
                    /\ draws' = draws \o line
                    /\ dof_div' = Append(dof_div, r.dof)
                    /\ legend_labels' = <<>>
                    /\ legend_colors' = <<>>
                    /\ band' = band
               ELSE /\ draws' = draws \o line \o
                         (IF args.add_universe_model_ci
                          THEN <<Draw("ax.plot", "band", Pooled, BandColor),
                                 Draw("ax.plot", "band", Pooled, BandColor)>>
                          ELSE <<>>)
                    /\ band' = IF args.add_universe_model_ci
                               THEN Append(band, Band(x, y_model, r.ci))
                               ELSE band
                    /\ dof_div' = IF args.add_universe_model_ci
                                  THEN Append(dof_div, r.dof)
                                  ELSE dof_div
                    /\ legend_labels' = IF args.add_universe_model_label
                                        THEN <<Label(Pooled, TRUE)>> ELSE <<>>
                    /\ legend_colors' = IF args.add_universe_model_label
                                        THEN <<color0>> ELSE <<>>
                    /\ pc' = "legend"
                    /\ err' = err
    /\ UNCHANGED <<entry, df_in, args, df, x_column, y_column, hue,
                   add_hue_model_label, colors, surface, fig, idx,
                   estimated_reg_models, legend_calls, xlim, ylim,
                   scatter_calls, ci_in, ret, lim_read, df_owner,
                   caller_table, args_in, fs, figs, created>>

(* ---------------------------------------------- plot_scatter, 154-174 *)
\* line 159 for the first k hue ids, in order
RECURSIVE RecolorHue(_, _, _, _)
RecolorHue(d, h, ids, k) ==
    IF k = 0 THEN d
    ELSE SetColumnWhere(RecolorHue(d, h, ids, k - 1), h, ids[k], ColorColumn, HueRecolor)

\* lines 160-169: the label of one hue id
HueLabel(order, with_params, hue_id) ==
    IF order > 0
    THEN IF with_params THEN Label(hue_id, TRUE) ELSE Label(hue_id, FALSE)
    ELSE Label(hue_id, FALSE)

LegendColorsReversed(cs, k) == [i \in 1..k |-> cs[k + 1 - i]]

\* lines 158 and 170: the colours zipped with the hue ids
LegendColorsOf(cs, k) == SubSeq(cs, 1, k)

\* lines 155-170, which write into the frame df is bound to; lines 172-174
\* are the elif of the same test and never run
HueLegend ==
    /\ pc = "legend"
    /\ LET d == SetColumn(df, ColorColumn, color0)
       IN IF hue # None
          THEN LET hue_ids == HueIds(d, hue)
                   k == Min2(Len(colors), Len(hue_ids))
                   reads_model == args.order > 0 /\ add_hue_model_label = Yes
               IN IF reads_model /\ \E i \in 1..k : hue_ids[i] \notin estimated_reg_models
                  THEN /\ Raise("KeyError")
                       /\ df' = d
                       /\ UNCHANGED <<legend_labels, legend_colors>>
                  ELSE /\ df' = RecolorHue(d, hue, hue_ids, k)
                       /\ legend_labels' = legend_labels \o
                            [i \in 1..k |-> HueLabel(args.order, add_hue_model_label = Yes, hue_ids[i])]
                       /\ legend_colors' = legend_colors \o LegendColorsOf(colors, k)
                       /\ pc' = "annotate"
                       /\ err' = err
          ELSE /\ df' = d
               /\ pc' = "annotate"
               /\ UNCHANGED <<legend_labels, legend_colors, err>>
    /\ caller_table' = IF df_owner = "caller" THEN df' ELSE caller_table
    /\ UNCHANGED <<entry, df_in, args, x_column, y_column, hue,
                   add_hue_model_label, colors, surface, fig, draws,
                   idx, estimated_reg_models, legend_calls, band,
                   dof_div, xlim, ylim, scatter_calls, ci_in, ret,
                   ols_calls, lim_read, df_owner, args_in, fs, figs,
                   created>>

(* ---------------------------------------------- plot_scatter, 176-191 *)
\* lines 178-183
AnnotationColors(a, d) ==
    IF a.annotation_colors # NoneSeq THEN a.annotation_colors
    ELSE IF a.annotation_color # None
         THEN [i \in 1..Len(d.rows) |-> a.annotation_color]
         ELSE Column(d, ColorColumn)

AnnotateOneNonEmpty(label, x, y, color) ==
    IF label # ""
    THEN <<DrawAt("ax.annotate", "annotation", label, color, <<x, y>>),
           DrawAt("ax.scatter", "annotated point", label, color, <<x, y>>)>>
    ELSE <<>>

\* lines 185-191 for one zipped (label, x, y, color)
AnnotateOne(label, x, y, color) ==
    <<DrawAt("ax.annotate", "annotation", label, color, <<x, y>>)>> \o
    (IF label # "" THEN <<DrawAt("ax.scatter", "annotated point", label, color, <<x, y>>)>>
     ELSE <<>>)

Annotate ==
    /\ pc = "annotate"
    /\ IF args.annotation_labels # NoneSeq
       THEN LET cs == AnnotationColors(args, df)
                xs == Column(df, x_column)
                ys == Column(df, y_column)
                k == Min2(Min2(Len(args.annotation_labels), Len(xs)), Len(cs))
            IN /\ colors' = cs
               /\ draws' = draws \o Concat([i \in 1..k |->
                     AnnotateOne(args.annotation_labels[i], xs[i], ys[i], cs[i])])
       ELSE UNCHANGED <<colors, draws>>
    /\ pc' = "line45"
    /\ UNCHANGED <<entry, df_in, args, df, x_column, y_column, hue,
                   add_hue_model_label, surface, fig, idx,
                   estimated_reg_models, legend_labels,
                   legend_colors, legend_calls, band, dof_div, xlim,
                   ylim, scatter_calls, ci_in, err, ret, ols_calls,
                   lim_read, df_owner, caller_table, args_in, fs,
                   figs, created>>

(* ---------------------------------------------- plot_scatter, 193-206 *)
\* the limits the axes report at lines 194-195 are matplotlib's autoscaled
\* view of what was drawn; the model takes them from a small set
AxisViews == {<<0, 1>>, <<0, 2>>, <<1, 3>>}
\* qp.set_x_limits / qp.set_y_limits: the given limits replace the current
SetLimits(cur, given) == IF given = NoLimits THEN cur ELSE given

SharedRangeOfX(xv, yv) == xv

\* lines 196-197: the range both axes are set to at lines 198-199
SharedRange(xv, yv) ==
    LET min == IF yv[1] < xv[1] THEN yv[1] ELSE xv[1]
        max == IF yv[2] > xv[2] THEN yv[2] ELSE xv[2]
    IN <<min, max>>

\* lines 193-206: the 45-degree step, then the limits of the caller
Line45 ==
    /\ pc = "line45"
    /\ IF args.add_45line
       THEN \E xv \in AxisViews, yv \in AxisViews :
                 /\ lim_read' = <<xv, yv>>
                 /\ xlim' = SetLimits(SharedRange(xv, yv), args.x_limits)
                 /\ ylim' = SetLimits(SharedRange(xv, yv), args.y_limits)
                 /\ draws' = Append(draws, Draw("ax.plot", "line45", "45", Line45Color))
       ELSE /\ xlim' = SetLimits(xlim, args.x_limits)
            /\ ylim' = SetLimits(ylim, args.y_limits)
            /\ draws' = draws
            /\ lim_read' = lim_read
    /\ pc' = "finish"
    /\ UNCHANGED <<entry, df_in, args, df, x_column, y_column, hue,
                   add_hue_model_label, colors, surface, fig, idx,
                   estimated_reg_models, legend_labels,
                   legend_colors, legend_calls, band, dof_div,
                   scatter_calls, ci_in, err, ret, ols_calls,
                   df_owner, caller_table, args_in, fs, figs,
                   created>>

(* ---------------------------------------------- plot_scatter, 208-240 *)
Finish ==
    /\ pc = "finish"
    /\ legend_calls' = Append(legend_calls,
                              [labels |-> legend_labels, colors |-> legend_colors])
    /\ IF entry = "plot_scatter"
       THEN ret' = fig /\ pc' = "done"
       ELSE ret' = ret /\ pc' = "cls_return"
    /\ UNCHANGED <<entry, df_in, args, df, x_column, y_column, hue,
                   add_hue_model_label, colors, surface, fig, draws,
                   idx, estimated_reg_models, legend_labels,
                   legend_colors, band, dof_div, xlim, ylim,
                   scatter_calls, ci_in, err, ols_calls, lim_read,
                   df_owner, caller_table, args_in, fs, figs,
                   created>>

(* ------------------------------- plot_classification_scatter, 243-290 *)
\* lines 262-271
ClsResolve ==
    /\ pc = "cls_resolve"
    /\ IF (x_column = None \/ y_column = None) /\ Len(df.cols) # 2
       THEN /\ Raise(IF x_column = None THEN XUndefined ELSE YUndefined)
            /\ UNCHANGED <<x_column, y_column>>
       ELSE /\ x_column' = IF x_column = None THEN df.cols[1] ELSE x_column
            /\ y_column' = IF y_column = None THEN df.cols[2] ELSE y_column
            /\ pc' = "cls_call"
            /\ err' = err
    /\ UNCHANGED <<entry, df_in, args, df, hue, add_hue_model_label, colors,
                   surface, fig, draws, idx, estimated_reg_models,
                   legend_labels, legend_colors, legend_calls, band,
                   dof_div, xlim, ylim, scatter_calls, ci_in, ret,
                   ols_calls, lim_read, df_owner, caller_table,
                   args_in, fs, figs, created>>

ScatterCallUngrouped(d, x, y, a) ==
    [df |-> d, x_column |-> x, y_column |-> y, hue |-> None,
     order |-> a.order, full_sample_order |-> a.full_sample_order,
     fit_intercept |-> a.fit_intercept,
     add_universe_model_ci |-> FALSE, add_hue_model_label |-> Yes, ax |-> a.ax]

\* lines 275-289: the arguments of the call of plot_scatter
ScatterCall(d, x, y, a) ==
    [df |-> d, x_column |-> x, y_column |-> y, hue |-> hue_name,
     order |-> a.order, full_sample_order |-> a.full_sample_order,
     fit_intercept |-> a.fit_intercept,
     add_universe_model_ci |-> FALSE, add_hue_model_label |-> Yes, ax |-> a.ax]

\* lines 273-289: classify, then call plot_scatter, whose df is the
\* classified table of its caller
ClsCall ==
    /\ pc = "cls_call"
    /\ LET call == ScatterCall(add_quantile_classification(df, x_column),
                               x_column, y_column, args)
       IN /\ scatter_calls' = Append(scatter_calls, call)
          /\ df' = call.df
          /\ caller_table' = call.df
          /\ df_owner' = "caller"
          /\ x_column' = call.x_column
          /\ y_column' = call.y_column
          /\ hue' = call.hue
          /\ add_hue_model_label' = call.add_hue_model_label
          /\ args' = [args EXCEPT !.order = call.order,
                                  !.full_sample_order = call.full_sample_order,
                                  !.fit_intercept = call.fit_intercept,
                                  !.add_universe_model_ci = call.add_universe_model_ci,
                                  !.ax = call.ax]
    /\ pc' = "dropna"
    /\ UNCHANGED <<entry, df_in, colors, surface, fig, draws, idx,
                   estimated_reg_models, legend_labels,
                   legend_colors, legend_calls, band, dof_div, xlim,
                   ylim, ci_in, err, ret, ols_calls, lim_read,
                   args_in, fs, figs, created>>

\* line 290
ClsReturn ==
    /\ pc = "cls_return"
    /\ ret' = fig
    /\ pc' = "done"
    /\ UNCHANGED <<entry, df_in, args, df, x_column, y_column, hue,
                   add_hue_model_label, colors, surface, fig, draws,
                   idx, estimated_reg_models, legend_labels,
                   legend_colors, legend_calls, band, dof_div, xlim,
                   ylim, scatter_calls, ci_in, err, ols_calls,
                   lim_read, df_owner, caller_table, args_in, fs,
                   figs, created>>

(* ------------------------------------------- calc_ci called directly *)
CalcCi ==
    /\ pc = "ci_call"
    /\ LET r == calc_ci(ci_in.x, ci_in.y, ci_in.y_model)
       IN /\ dof_div' = Append(dof_div, r.dof)
          /\ IF r.raised
             THEN Raise("ZeroDivisionError") /\ band' = band
             ELSE /\ band' = Append(band, Band(ci_in.x, ci_in.y_model, r.ci))
                  /\ pc' = "done"
                  /\ err' = err
    /\ UNCHANGED <<entry, df_in, args, df, x_column, y_column, hue,
                   add_hue_model_label, colors, surface, fig, draws,
                   idx, estimated_reg_models, legend_labels,
                   legend_colors, legend_calls, xlim, ylim,
                   scatter_calls, ci_in, ret, ols_calls, lim_read,
                   df_owner, caller_table, args_in, fs, figs,
                   created>>

(* ---------------- generate_strategy_factsheet, strategy_factsheet.py *)
\* the switches of lines 33-36 at their defaults
FsDefaults ==
    [add_var_risk_sheet |-> TRUE, add_grouped_exposures |-> FALSE,
     add_grouped_cum_pnl |-> FALSE, is_1y_exposures |-> FALSE]

\* a figure made by plt.figure: the k-th of the call, under its suptitle
Figure(k, title, period) == [id |-> k, title |-> title, period |-> period]
MainTitle == "factsheet"
VarRiskTitle == "var and risk profile"
ExposuresTitle == "Exposures by groups"
CumPnlTitle == "P&L by groups"
\* lines 336-339 and 364-367
time_period1(is_1y_exposures) == IF is_1y_exposures THEN "shifted by years" ELSE "time_period"

AppendFigFirst(fs_list, f) == <<f>> \o fs_list

\* figs.append(fig) of lines 249, 343 and 371
AppendFig(fs_list, f) == Append(fs_list, f)

\* lines 49-244: the main page, and figs = [fig]
FsMainPage ==
    /\ pc = "fs_main"
    /\ LET f == Figure(Len(created) + 1, MainTitle, "time_period")
       IN /\ created' = Append(created, f)
          /\ figs' = <<f>>
    /\ pc' = "fs_var_risk"
    /\ UNCHANGED <<entry, df_in, args, df, x_column, y_column, hue,
                   add_hue_model_label, colors, surface, fig, draws,
                   idx, estimated_reg_models, legend_labels,
                   legend_colors, legend_calls, band, dof_div, xlim,
                   ylim, scatter_calls, ci_in, err, ret, ols_calls,
                   lim_read, df_owner, caller_table, args_in, fs>>

\* lines 246-333
FsVarRiskSheet ==
    /\ pc = "fs_var_risk"
    /\ IF fs.add_var_risk_sheet
       THEN LET f == Figure(Len(created) + 1, VarRiskTitle, "time_period")
            IN /\ created' = Append(created, f)
               /\ figs' = AppendFig(figs, f)
       ELSE UNCHANGED <<created, figs>>
    /\ pc' = "fs_exposures"
    /\ UNCHANGED <<entry, df_in, args, df, x_column, y_column, hue,
                   add_hue_model_label, colors, surface, fig, draws,
                   idx, estimated_reg_models, legend_labels,
                   legend_colors, legend_calls, band, dof_div, xlim,
                   ylim, scatter_calls, ci_in, err, ret, ols_calls,
                   lim_read, df_owner, caller_table, args_in, fs>>

\* lines 335-361
FsGroupedExposures ==
    /\ pc = "fs_exposures"
    /\ IF fs.add_grouped_exposures
       THEN LET f == Figure(Len(created) + 1, ExposuresTitle,
                            time_period1(fs.is_1y_exposures))
            IN /\ created' = Append(created, f)
               /\ figs' = AppendFig(figs, f)
       ELSE UNCHANGED <<created, figs>>
    /\ pc' = "fs_cum_pnl"
    /\ UNCHANGED <<entry, df_in, args, df, x_column, y_column, hue,
                   add_hue_model_label, colors, surface, fig, draws,
                   idx, estimated_reg_models, legend_labels,
                   legend_colors, legend_calls, band, dof_div, xlim,
                   ylim, scatter_calls, ci_in, err, ret, ols_calls,
                   lim_read, df_owner, caller_table, args_in, fs>>

\* lines 363-389
FsGroupedCumPnl ==
    /\ pc = "fs_cum_pnl"
    /\ IF fs.add_grouped_cum_pnl
       THEN LET f == Figure(Len(created) + 1, CumPnlTitle,
                            time_period1(fs.is_1y_exposures))
            IN /\ created' = Append(created, f)
               /\ figs' = AppendFig(figs, f)
       ELSE UNCHANGED <<created, figs>>
    /\ pc' = "fs_return"
    /\ UNCHANGED <<entry, df_in, args, df, x_column, y_column, hue,
                   add_hue_model_label, colors, surface, fig, draws,
                   idx, estimated_reg_models, legend_labels,
                   legend_colors, legend_calls, band, dof_div, xlim,
                   ylim, scatter_calls, ci_in, err, ret, ols_calls,
                   lim_read, df_owner, caller_table, args_in, fs>>

\* line 391
FsReturn ==
    /\ pc = "fs_return"
    /\ ret' = figs
    /\ pc' = "done"
    /\ UNCHANGED <<entry, df_in, args, df, x_column, y_column, hue,
                   add_hue_model_label, colors, surface, fig, draws,
                   idx, estimated_reg_models, legend_labels,
                   legend_colors, legend_calls, band, dof_div, xlim,
                   ylim, scatter_calls, ci_in, err, ols_calls,
                   lim_read, df_owner, caller_table, args_in, fs,
                   figs, created>>

(* ------------------------------------------------------------ the calls *)
Call(e, d, a, c) == [entry |-> e, df |-> d, args |-> a, ci_in |-> c, fs |-> FsDefaults]
NoCiIn == [x |-> <<>>, y |-> <<>>, y_model |-> <<>>]

Cols(names, n) == SubSeq(names, 1, n)
\* a row of n cells holding v, with a missing value in column k (0: none)
MkRow(n, v, k) == [c \in 1..n |-> IF c = k THEN NA ELSE Cell(v)]
RowKinds(n) == {MkRow(n, v, k) : v \in 1..MaxVal, k \in {0, n}}
RowSeqs(n) == UNION {[1..m -> RowKinds(n)] : m \in 0..MaxRows}
SampleRows(n) == {<<MkRow(n, 2, 0), MkRow(n, 1, 0)>>}
Orders == 0..MaxOrder
OptOrders == Orders \cup {NoOrder}

\* every way of naming x, y and the group of a table of 2..MaxCols columns
ColumnCallsOf(names, n) ==
    LET cols == Cols(names, n)
    IN {Call(e, Frame(cols, rows),
             [Defaults EXCEPT !.x_column = x, !.y_column = y, !.hue = h, !.ax = ax],
             NoCiIn) :
          e \in {"plot_scatter", "plot_classification_scatter"},
          rows \in SampleRows(n),
          x \in {None, cols[1]}, y \in {None, cols[2]},
          h \in {None} \cup {cols[i] : i \in 1..Min2(n, 3)},
          ax \in {None, "ax"}}
ColumnCalls ==
    {c \in UNION {ColumnCallsOf(names, n) :
                    names \in {NamesPlain, NamesColor}, n \in 2..MaxCols} :
       c.entry = "plot_classification_scatter" => c.args.hue = None}

\* the four shapes of table the drawing code distinguishes: ungrouped,
\* grouped by a column, grouped by a column called "color", and melted
Shapes ==
    {[cols |-> Cols(NamesPlain, 2), x |-> None, hue |-> None],
     [cols |-> Cols(NamesPlain, 3), x |-> None, hue |-> "g"],
     [cols |-> Cols(NamesColor, 3), x |-> None, hue |-> "color"],
     [cols |-> Cols(NamesPlain, 4), x |-> "a", hue |-> None]}
ShapeArgs(s) == [Defaults EXCEPT !.x_column = s.x, !.hue = s.hue]

\* the orders and the pooled-model switches, over every table
OrderCallsOf(s) ==
    {Call("plot_scatter", Frame(s.cols, rows),
          [ShapeArgs(s) EXCEPT !.order = o, !.full_sample_order = fso,
                               !.add_universe_model_label = lab,
                               !.add_universe_model_prediction = pred,
                               !.add_universe_model_ci = uci],
          NoCiIn) :
       rows \in RowSeqs(Len(s.cols)), o \in Orders, fso \in OptOrders,
       lab \in BOOLEAN, pred \in BOOLEAN, uci \in BOOLEAN}
OrderCalls == UNION {OrderCallsOf(s) : s \in Shapes}

\* the per-group switches: label text, regplot, the caller's colours
UserColors == {NoneSeq, <<"u1">>, <<"u1", "u2", "u3">>}
HueCallsOf(s) ==
    {Call("plot_scatter", Frame(s.cols, rows),
          [ShapeArgs(s) EXCEPT !.order = o, !.add_hue_model_label = hml,
                               !.ci = ci, !.colors = cs],
          NoCiIn) :
       rows \in RowSeqs(Len(s.cols)), o \in Orders, hml \in {None, Yes, No},
       ci \in {None, "95"}, cs \in UserColors}
HueCalls == UNION {HueCallsOf(s) : s \in Shapes}

\* the wrapper over every two-column table
ClsCalls ==
    {Call("plot_classification_scatter", Frame(Cols(NamesPlain, 2), rows),
          [Defaults EXCEPT !.order = o, !.full_sample_order = fso,
                           !.fit_intercept = fi, !.ax = ax],
          NoCiIn) :
       rows \in RowSeqs(2), o \in Orders, fso \in OptOrders,
       fi \in BOOLEAN, ax \in {None, "ax"}}

\* annotations, the 45-degree line and explicit limits
AnnotationCallsOf(s) ==
    {Call("plot_scatter", Frame(s.cols, rows),
          [ShapeArgs(s) EXCEPT !.annotation_labels = labels,
                               !.annotation_colors = acs,
                               !.annotation_color = ac,
                               !.add_45line = l45,
                               !.x_limits = xl, !.y_limits = yl],
          NoCiIn) :
       rows \in SampleRows(Len(s.cols)) \cup
                {<<MkRow(Len(s.cols), 1, Len(s.cols)), MkRow(Len(s.cols), 2, 0)>>},
       labels \in {NoneSeq, <<"", "L2">>, <<"L1", "L2">>},
       acs \in {NoneSeq, <<"k1", "k2">>}, ac \in {None, "red"},
       l45 \in BOOLEAN, xl \in {NoLimits, <<0, 5>>}, yl \in {NoLimits, <<0, 5>>}}
AnnotationCalls == UNION {AnnotationCallsOf(s) : s \in Shapes}

\* calc_ci on every sample of up to MaxCiRows points
CiSamples(n) == [1..n -> 1..MaxCiVal]
CiCallsOf(n) ==
    {Call("calc_ci", Frame(<<>>, <<>>), Defaults,
          [x |-> x, y |-> y, y_model |-> ym]) :
       x \in CiSamples(n), y \in CiSamples(n), ym \in CiSamples(n)}
CiCalls == UNION {CiCallsOf(n) : n \in 0..MaxCiRows}

\* generate_strategy_factsheet under every setting of its page switches
FactsheetCalls ==
    {[Call("generate_strategy_factsheet", Frame(<<>>, <<>>), Defaults, NoCiIn)
        EXCEPT !.fs = [add_var_risk_sheet |-> v, add_grouped_exposures |-> e,
                       add_grouped_cum_pnl |-> p, is_1y_exposures |-> y]] :
       v \in BOOLEAN, e \in BOOLEAN, p \in BOOLEAN, y \in BOOLEAN}

Calls ==
    ColumnCalls \cup OrderCalls \cup HueCalls \cup ClsCalls
    \cup AnnotationCalls \cup CiCalls \cup FactsheetCalls

EntryPoint(e) ==
    IF e = "plot_scatter" THEN "dropna"
    ELSE IF e = "calc_ci" THEN "ci_call"
    ELSE IF e = "generate_strategy_factsheet" THEN "fs_main"
    ELSE "cls_resolve"

Init ==
    \E c \in Calls :
       /\ entry = c.entry
       /\ df_in = c.df
       /\ args = c.args
       /\ ci_in = c.ci_in
       /\ pc = EntryPoint(c.entry)
       /\ df = c.df
       /\ x_column = c.args.x_column
       /\ y_column = c.args.y_column
       /\ hue = c.args.hue
       /\ add_hue_model_label = c.args.add_hue_model_label
       /\ colors = c.args.colors
       /\ surface = None
       /\ fig = None
       /\ draws = <<>>
       /\ idx = 0
       /\ estimated_reg_models = {}
       /\ legend_labels = <<>>
       /\ legend_colors = <<>>
       /\ legend_calls = <<>>
       /\ band = <<>>
       /\ dof_div = <<>>
       /\ xlim = <<0, 1>>
       /\ ylim = <<0, 1>>
       /\ scatter_calls = <<>>
       /\ err = None
       /\ ret = "unset"
       /\ ols_calls = <<>>
       /\ lim_read = <<>>
       /\ df_owner = "caller"
       /\ caller_table = c.df
       /\ args_in = c.args
       /\ fs = c.fs
       /\ figs = <<>>
       /\ created = <<>>

Next ==
    \/ CopyDropNa
    \/ ResolveX
    \/ ResolveY
    \/ AllocSurface
    \/ HueColors
    \/ HueLoop
    \/ FullSampleDraw
    \/ FullSampleModel
    \/ HueLegend
    \/ Annotate
    \/ Line45
    \/ Finish
    \/ ClsResolve
    \/ ClsCall
    \/ ClsReturn
    \/ CalcCi
    \/ FsMainPage
    \/ FsVarRiskSheet
    \/ FsGroupedExposures
    \/ FsGroupedCumPnl
    \/ FsReturn

Spec == Init /\ [][Next]_vars

(* ------------------------------------------------------------ properties *)
IsScatterCall == entry \in {"plot_scatter", "plot_classification_scatter"}
\* plot_scatter has reached its return statement
ScatterReturned == IsScatterCall /\ pc \in {"done", "cls_return"}
\* x and y have been resolved by lines 60-72
Resolved == pc \notin {"dropna", "resolve_x", "resolve_y", "cls_resolve", "cls_call", "ci_call", "raised"}
CurveDraws == SelectSeq(draws, DrawsCurve)
BandDraws == SelectSeq(draws, LAMBDA d : d.what = "band")
ParamLabels == SelectSeq(legend_labels, LAMBDA l : l.params)
\* the owners of the legend entries that come from groups, in legend order
GroupEntries(labels) ==
    LET ls == SelectSeq(labels, LAMBDA l : l.owner # Pooled)
    IN [i \in 1..Len(ls) |-> ls[i].owner]

\* C1 as stated: with order = 0 no curve is drawn and the legend holds no
\* regression-parameter text, whatever the other options are.
C1_NoCurveAtOrderZero ==
    (IsScatterCall /\ args.order = 0) =>
        (CurveDraws = <<>> /\ ParamLabels = <<>>)

\* C1 amended: with order = 0 no group gets a curve or a label with
\* regression-parameter text; every regression curve and every such label
\* belongs to the pooled model, and there is none (and no confidence band)
\* when full_sample_order is None or 0.
C1_OnlyPooledCurveAtOrderZero ==
    (IsScatterCall /\ args.order = 0) =>
        /\ \A i \in 1..Len(CurveDraws) : CurveDraws[i].owner = Pooled
        /\ \A i \in 1..Len(ParamLabels) : ParamLabels[i].owner = Pooled
        /\ args.full_sample_order \in {NoOrder, 0} =>
              (CurveDraws = <<>> /\ BandDraws = <<>> /\ ParamLabels = <<>>)

C1_Witness ==
    /\ pc = "done"
    /\ entry = "plot_scatter"
    /\ args.order = 0
    /\ args.full_sample_order = 0
    /\ hue # None
    /\ Len(legend_labels) >= 2
    /\ Len(draws) >= 2

\* C2: when a grouped call returns, the legend entries that come from groups
\* are the distinct values of the group column among the rows without
\* missing values, in order of first occurrence.
C2_LegendEntriesAreGroups ==
    (entry = "plot_scatter" /\ args.hue # None /\ pc = "done") =>
        GroupEntries(legend_calls[1].labels) = HueIds(DropNa(df_in), args.hue)

\* C3: the legend renderer is called once, with as many colours as labels,
\* and colour i is the colour of every scatter layer and curve drawn for the
\* group (or the pooled model) that label i names.
C3_LegendColorsMatchDraws ==
    /\ Len(legend_calls) <= 1
    /\ ScatterReturned => Len(legend_calls) = 1
    /\ \A c \in 1..Len(legend_calls) :
          LET call == legend_calls[c]
          IN /\ Len(call.labels) = Len(call.colors)
             /\ \A i \in 1..Len(call.labels) : \A j \in 1..Len(draws) :
                   (/\ draws[j].owner = call.labels[i].owner
                    /\ (DrawsPoints(draws[j]) \/ DrawsCurve(draws[j])))
                   => draws[j].color = call.colors[i]

C3_Witness ==
    /\ entry = "plot_scatter"
    /\ pc = "done"
    /\ Len(legend_calls[1].labels) = 3
    /\ legend_calls[1].labels[1].owner = Pooled
    /\ legend_calls[1].colors[2] # legend_calls[1].colors[3]
    /\ \E j \in 1..Len(draws) :
          DrawsCurve(draws[j]) /\ draws[j].owner = legend_calls[1].labels[3].owner

\* C4: on a two-column table with neither x_column nor y_column given, x is
\* the first column and y the second.
C4_TwoColumnsInferred ==
    (/\ entry = "plot_scatter"
     /\ Len(df_in.cols) = 2
     /\ args.x_column = None
     /\ args.y_column = None)
    => /\ err \notin InferenceErrors
       /\ Resolved => (x_column = df_in.cols[1] /\ y_column = df_in.cols[2])

C4_Witness ==
    /\ entry = "plot_scatter"
    /\ Len(df_in.cols) = 2
    /\ args.x_column = None
    /\ args.y_column = None
    /\ pc = "done"
    /\ x_column = "a"
    /\ y_column = "b"

\* C5: on a three-column table with a group column given and neither
\* x_column nor y_column given, x and y are the two columns other than the
\* group column, in column order, wherever the group column stands.
C5_ThreeColumnsSkipGroup ==
    (/\ entry = "plot_scatter"
     /\ Len(df_in.cols) = 3
     /\ args.hue \in Range(df_in.cols)
     /\ args.x_column = None
     /\ args.y_column = None
     /\ Resolved)
    => <<x_column, y_column>> = SelectSeq(df_in.cols, LAMBDA c : c # args.hue)

FiveColumnsNoNames ==
    /\ entry = "plot_scatter"
    /\ Len(df_in.cols) = 5
    /\ args.hue = None
    /\ args.x_column = None
    /\ args.y_column = None

\* C6: a five-column table with no group column and no x_column or y_column
\* ends in the ambiguous-columns error and no figure is returned.
C6_FiveColumnsRaise ==
    FiveColumnsNoNames =>
        /\ pc \in {"dropna", "resolve_x", "raised"}
        /\ pc = "raised" => err = XUndefined
        /\ ret = "unset"
        /\ fig = None

C6_Witness == FiveColumnsNoNames /\ pc = "raised" /\ err = XUndefined

\* C7: when column inference fails, in plot_scatter or in
\* plot_classification_scatter, no surface has been allocated and no draw
\* call has been issued, and none is afterwards.
C7_InferenceFailsBeforeDrawing ==
    (IsScatterCall /\ err \in InferenceErrors) =>
        /\ pc = "raised"
        /\ surface = None
        /\ fig = None
        /\ draws = <<>>
        /\ legend_calls = <<>>

C7_Witness ==
    /\ pc = "raised"
    /\ err = XUndefined
    /\ entry = "plot_scatter"
    /\ args.ax # None

\* the columns left for y once the group column and x are taken out
NonGroupColumns == Range(df_in.cols) \ {args.hue}
SeveralYCandidates == Cardinality(NonGroupColumns) - 1 > 1
\* a table that is neither two columns nor three columns with a group field
WideTable == ~(Len(df_in.cols) = 2 \/ (Len(df_in.cols) = 3 /\ args.hue # None))

\* C8 as stated: without y_column, and with more than one column left as a
\* candidate for y, the call fails with the ambiguous-columns error, also
\* when x_column is given on a table of four or more columns.
C8_SeveralCandidatesRaise ==
    (/\ entry = "plot_scatter"
     /\ args.y_column = None
     /\ SeveralYCandidates)
    => /\ ~Resolved
       /\ pc = "raised" => err \in InferenceErrors

\* C8 amended: plot_scatter raises the ambiguous-columns error exactly when
\* x_column is not given and the table is neither two columns nor three
\* columns with a group field; when x_column is given and y_column is not,
\* such a table (four or more columns included) is reshaped to long form,
\* one group per remaining column, and no such error is raised.
C8_RaiseWithoutXMeltWithX ==
    entry = "plot_scatter" =>
        /\ err \in InferenceErrors =>
              (err = XUndefined /\ args.x_column = None /\ WideTable)
        /\ (args.x_column = None /\ WideTable) =>
              (~Resolved /\ (pc = "raised" => err = XUndefined))
        /\ (args.x_column # None /\ args.y_column = None /\ WideTable /\ Resolved) =>
              /\ hue = MeltHue
              /\ y_column = value_name
              /\ x_column = args.x_column
              /\ SubSeq(df.cols, 1, 3) = <<args.x_column, MeltHue, value_name>>
              /\ HueIds(df, MeltHue) \in
                    {<<>>, SelectSeq(df_in.cols, LAMBDA c : c # args.x_column)}

C8_Witness ==
    /\ entry = "plot_scatter"
    /\ args.y_column = None
    /\ args.x_column # None
    /\ Len(df_in.cols) >= 4
    /\ pc = "done"
    /\ hue = MeltHue
    /\ Len(legend_calls[1].labels) >= 3

\* C9: every half-width calc_ci returns is >= 0, and the band drawn from it
\* has upper - prediction = prediction - lower at every point.
C9_BandSymmetric ==
    \A b \in 1..Len(band) : \A i \in 1..Len(band[b].half_width) :
        /\ FGe0(band[b].half_width[i])
        /\ FEq(FSub(band[b].upper[i], band[b].prediction[i]),
               FSub(band[b].prediction[i], band[b].lower[i]))

\* C10: no call of plot_scatter divides by a zero number of degrees of
\* freedom.
C10_NoZeroDof ==
    IsScatterCall => \A i \in 1..Len(dof_div) : dof_div[i] # 0


\* C11: a fit of a group with fewer rows than the coefficients of the
\* requested order ends in the insufficient-data error, so the solver is
\* never called on such a group.
C11_NoFitBelowCoefficients ==
    IsScatterCall =>
        \A i \in 1..Len(ols_calls) :
            ols_calls[i].owner # Pooled => ols_calls[i].n >= ols_calls[i].cols

\* the annotate step of lines 176-191 is over
Annotated == entry = "plot_scatter" /\ pc \in {"line45", "finish", "done"}
AnnotationDraws == SelectSeq(draws, LAMBDA d : d.what = "annotation")
PointDraws == SelectSeq(draws, LAMBDA d : d.what = "annotated point")
\* at is the (x, y) point of the i-th row of the caller's table
AtInputRow(i, at) ==
    /\ i <= Len(df_in.rows)
    /\ at[1] = df_in.rows[i][ColIdx(df_in, x_column)]
    /\ HasCol(df_in, y_column) => at[2] = df_in.rows[i][ColIdx(df_in, y_column)]

\* C12: the i-th annotation label is drawn at the point of the i-th row of
\* the caller's table, rows with missing values and reshaped tables included.
C12_LabelsAtInputRows ==
    (Annotated /\ args.annotation_labels # NoneSeq) =>
        \A i \in 1..Len(AnnotationDraws) :
            /\ AnnotationDraws[i].owner = args.annotation_labels[i]
            /\ AtInputRow(i, AnnotationDraws[i].at)

\* the labels that line 184 zipped with a row and a colour
ZippedLabels ==
    SubSeq(args.annotation_labels, 1,
           Min2(Min2(Len(args.annotation_labels), Len(df.rows)), Len(colors)))
NonEmpty(labels) == SelectSeq(labels, LAMBDA l : l # "")
Owners(ds) == [i \in 1..Len(ds) |-> ds[i].owner]
Places(ds) == [i \in 1..Len(ds) |-> ds[i].at]

\* C13 as stated: annotation calls and re-drawn points are made for exactly
\* the rows with a non-empty label; a row with an empty label gets neither.
C13_NothingForEmptyLabel ==
    (Annotated /\ args.annotation_labels # NoneSeq) =>
        /\ Owners(AnnotationDraws) = NonEmpty(ZippedLabels)
        /\ Owners(PointDraws) = NonEmpty(ZippedLabels)

\* C13 amended: an annotation call is made for every zipped row, with empty
\* text where the label is empty; a point is re-drawn for exactly the rows
\* with a non-empty label, at the place of that row's annotation.
C13_AnnotationEveryRowPointIfNonEmpty ==
    (Annotated /\ args.annotation_labels # NoneSeq) =>
        /\ Owners(AnnotationDraws) = ZippedLabels
        /\ Owners(PointDraws) = NonEmpty(ZippedLabels)
        /\ Places(PointDraws) =
              Places(SelectSeq(AnnotationDraws, LAMBDA d : d.owner # ""))

C13_Witness ==
    /\ entry = "plot_scatter"
    /\ pc = "done"
    /\ args.annotation_labels = <<"", "L2">>
    /\ Len(AnnotationDraws) = 2
    /\ Len(PointDraws) = 1
    /\ AnnotationDraws[1].owner = ""

Max2(a, b) == IF a > b THEN a ELSE b
\* [min(xmin, ymin), max(xmax, ymax)] of the limits read at lines 194-195
UnionRead ==
    <<Min2(lim_read[1][1], lim_read[2][1]), Max2(lim_read[1][2], lim_read[2][2])>>
\* the 45-degree step has run
Line45Done == entry = "plot_scatter" /\ args.add_45line /\ pc \in {"finish", "done"}
\* the identity line is the last draw call on the surface
Line45DrawnLast ==
    /\ draws # <<>>
    /\ \A i \in 1..Len(draws) : draws[i].what = "line45" <=> i = Len(draws)

\* C14 as stated: the 45-degree step is the last plotting call, and in the
\* finished plot both axes span the union of the limits read at the step,
\* whatever x_limits and y_limits are.
C14_SquareLimitsAlways ==
    Line45Done =>
        /\ Line45DrawnLast
        /\ xlim = UnionRead
        /\ ylim = UnionRead

\* C14 amended: the 45-degree step is the last plotting call; an axis spans
\* the union of the limits read at the step in the finished plot when its
\* limits are not given, so both axes are equal when neither is given.
C14_SquareLimitsUnlessGiven ==
    Line45Done =>
        /\ Line45DrawnLast
        /\ args.x_limits = NoLimits => xlim = UnionRead
        /\ args.y_limits = NoLimits => ylim = UnionRead
        /\ (args.x_limits = NoLimits /\ args.y_limits = NoLimits) => xlim = ylim

C14_Witness ==
    /\ entry = "plot_scatter"
    /\ pc = "done"
    /\ args.add_45line
    /\ args.x_limits = NoLimits
    /\ args.y_limits = NoLimits
    /\ lim_read = <<<<0, 1>>, <<1, 3>>>>
    /\ xlim = <<0, 3>>
    /\ ylim = <<0, 3>>
    /\ Len(AnnotationDraws) = 2

\* C15: plot_scatter returns a new figure exactly when no surface is given
\* and None exactly when one is given; with a surface given none is
\* allocated and every draw call is made on the given surface.
C15_FigureIffNoSurface ==
    entry = "plot_scatter" =>
        /\ pc = "done" =>
              /\ ret = "Figure" <=> args.ax = None
              /\ ret = None <=> args.ax # None
        /\ args.ax # None =>
              /\ surface \in {None, "caller"}
              /\ \A i \in 1..Len(draws) : draws[i].on = "caller"
        /\ args.ax = None =>
              \A i \in 1..Len(draws) : draws[i].on = "new"

C15_Witness ==
    /\ entry = "plot_scatter"
    /\ pc = "done"
    /\ args.ax # None
    /\ ret = None
    /\ surface = "caller"
    /\ Len(draws) >= 2

\* the call of plot_scatter made by the wrapper
IsClsCall == entry = "plot_classification_scatter"
ClsX == IF args_in.x_column = None THEN df_in.cols[1] ELSE args_in.x_column
ClsY == IF args_in.y_column = None THEN df_in.cols[2] ELSE args_in.y_column
\* d is the caller's table with a group column that is a function of x
DerivedFromX(d, x) ==
    /\ HasCol(d, hue_name)
    /\ Len(d.rows) = Len(df_in.rows)
    /\ \A i \in 1..Len(d.rows) : \A c \in Range(df_in.cols) \ {hue_name} :
          d.rows[i][ColIdx(d, c)] = df_in.rows[i][ColIdx(df_in, c)]
    /\ \A i, j \in 1..Len(d.rows) :
          d.rows[i][ColIdx(d, x)] = d.rows[j][ColIdx(d, x)]
          => d.rows[i][ColIdx(d, hue_name)] = d.rows[j][ColIdx(d, hue_name)]

\* C16: once x and y are resolved the wrapper derives the group column from
\* x, calls plot_scatter exactly once with hue_name as the group field and
\* its own x, y, order, full_sample_order and surface, and returns what that
\* call returned.
C16_WrapperDelegatesOnce ==
    IsClsCall =>
        /\ Len(scatter_calls) <= 1
        /\ pc \notin {"cls_resolve", "cls_call", "raised"} => Len(scatter_calls) = 1
        /\ Len(scatter_calls) = 1 =>
              LET c == scatter_calls[1]
              IN /\ c.hue = hue_name
                 /\ c.x_column = ClsX
                 /\ c.y_column = ClsY
                 /\ c.order = args_in.order
                 /\ c.full_sample_order = args_in.full_sample_order
                 /\ c.ax = args_in.ax
                 /\ DerivedFromX(c.df, ClsX)
                 /\ pc \notin {"raised"} =>
                       /\ hue = c.hue
                       /\ x_column = c.x_column
                       /\ y_column = c.y_column
                       /\ args.order = c.order
                       /\ args.full_sample_order = c.full_sample_order
        /\ pc = "done" => ret = fig

C16_Witness ==
    /\ IsClsCall
    /\ pc = "done"
    /\ Len(scatter_calls) = 1
    /\ scatter_calls[1].hue = hue_name
    /\ ret = "Figure"
    /\ Len(draws) >= 2

\* the table plot_scatter was called with
ScatterEntered == entry = "plot_scatter" \/ (IsClsCall /\ Len(scatter_calls) = 1)
ScatterInput == IF entry = "plot_scatter" THEN df_in ELSE scatter_calls[1].df

\* C17: on every path, error paths included, the table object of the caller
\* of plot_scatter holds what it held at the call: no row removed, no column
\* added, no value altered.
C17_CallerTableUnchanged ==
    ScatterEntered => caller_table = ScatterInput

C17_Witness ==
    /\ entry = "plot_scatter"
    /\ pc = "done"
    /\ Len(df.rows) < Len(df_in.rows)
    /\ HasCol(df, ColorColumn)
    /\ ~HasCol(df_in, ColorColumn)
    /\ hue = MeltHue
    /\ caller_table = df_in

\* the scatter layers and curves of the groups, in drawing order
GroupLayers ==
    SelectSeq(draws, LAMBDA d : d.owner # Pooled
                                /\ d.what \in {"points", "curve", "points+curve"})
CurveRenderer(ci) == IF ci # None THEN "sns.regplot" ELSE "ax.plot"

\* C18: with a group field every group's scatter layer is followed by
\* exactly one curve call when order > 0, ax.plot of the prediction without
\* ci and sns.regplot with ci, by none when order = 0, and no curve comes
\* without the scatter layer of its group just before it.
C18_OneCurveAfterScatter ==
    (IsScatterCall /\ hue # None) =>
        LET g == GroupLayers
        IN /\ \A j \in 1..Len(g) :
                IF g[j].call = "sns.scatterplot"
                THEN /\ \A k \in 1..Len(g) :
                           (g[k].call = "sns.scatterplot" /\ g[k].owner = g[j].owner)
                           => k = j
                     /\ IF args.order > 0
                        THEN /\ j < Len(g)
                             /\ g[j + 1].owner = g[j].owner
                             /\ g[j + 1].call = CurveRenderer(args.ci)
                        ELSE j = Len(g) \/ g[j + 1].call = "sns.scatterplot"
                ELSE /\ args.order > 0
                     /\ j > 1
                     /\ g[j - 1].call = "sns.scatterplot"
                     /\ g[j - 1].owner = g[j].owner
           /\ pc = "pooled" =>
                \A h \in Range(HueIds(df, hue)) :
                    \E j \in 1..Len(g) : g[j].call = "sns.scatterplot" /\ g[j].owner = h

C18_Witness ==
    /\ entry = "plot_scatter"
    /\ pc = "done"
    /\ args.hue # None
    /\ args.order > 0
    /\ args.ci # None
    /\ Len(GroupLayers) = 4
    /\ GroupLayers[2].call = "sns.regplot"
    /\ GroupLayers[1].owner # GroupLayers[3].owner

\* the titles of the pages the switches ask for, in the order of the code
PagesAsked ==
    <<MainTitle>>
    \o (IF fs.add_var_risk_sheet THEN <<VarRiskTitle>> ELSE <<>>)
    \o (IF fs.add_grouped_exposures THEN <<ExposuresTitle>> ELSE <<>>)
    \o (IF fs.add_grouped_cum_pnl THEN <<CumPnlTitle>> ELSE <<>>)
IsFactsheetCall == entry = "generate_strategy_factsheet"

\* C19: the returned list starts with the main page, holds one more page per
\* enabled switch in the order var-risk, exposures, cumulative P&L, and
\* holds every figure the call made exactly once.
C19_FigsArePagesAsked ==
    (IsFactsheetCall /\ pc = "done") =>
        /\ ret[1].title = MainTitle
        /\ Len(ret) = Len(PagesAsked)
        /\ [i \in 1..Len(ret) |-> ret[i].title] = PagesAsked
        /\ \A k \in 1..Len(created) :
              Cardinality({i \in 1..Len(ret) : ret[i] = created[k]}) = 1
        /\ \A i \in 1..Len(ret) : ret[i] \in Range(created)

C19_Witness ==
    /\ IsFactsheetCall
    /\ pc = "done"
    /\ fs.add_var_risk_sheet
    /\ fs.add_grouped_exposures
    /\ fs.add_grouped_cum_pnl
    /\ Len(ret) = 4
    /\ ret[4].title = CumPnlTitle

====
